---- MODULE Spec2Model ----
(***************************************************************************)
(* pydiskmark: a storage benchmark orchestrator (src/src/main.rs).         *)
(*                                                                         *)
(* The module models                                                       *)
(*   - fio::gen_fio_job_configs, the job splitter,                         *)
(*   - fio::run_jobs, the subprocess driver, with its output parser,       *)
(*   - disktest::run_write / run_verify, the trial loops, and              *)
(*     disktest::capture_disktest_output, the descriptor redirection,      *)
(*   - main, which strings them together.                                  *)
(*                                                                         *)
(* External collaborators (the fio binary, the file system, disktest_lib,  *)
(* the OS pipe) are nondeterministic choices over the outcomes their       *)
(* interfaces allow (Ok / Err / panic, exit status, output text).          *)
(***************************************************************************)
EXTENDS Integers, Sequences, FiniteSets, TLC

(***************************************************************************)
(* Bounds of the model.                                                    *)
(***************************************************************************)
\* number of section names besides "global" a Job Document may use
MaxSections == 2
\* number of lines of a text the fio binary prints
MaxLines == 4
\* largest value a trial may measure
MaxResult == 1

(***************************************************************************)
(* Program constants.                                                      *)
(***************************************************************************)
\* for _ in 0..6
TrialCount == 6

(***************************************************************************)
(* Generic helpers.                                                        *)
(***************************************************************************)
Range(s) == {s[i] : i \in 1..Len(s)}

\* all sequences over S of length 0..n
SeqUpTo(S, n) == UNION {[1..k -> S] : k \in 0..n}

\* all orderings of the finite set S
Orderings(S) ==
  {p \in [1..Cardinality(S) -> S] : \A i, j \in 1..Cardinality(S) : p[i] = p[j] => i = j}

RECURSIVE SumSeq(_)
SumSeq(s) == IF s = <<>> THEN 0 ELSE Head(s) + SumSeq(Tail(s))

(***************************************************************************)
(* Job Documents: configparser::ini::Ini as consumed by main.rs.  A        *)
(* document is a map from section name to a map from key to value; both    *)
(* maps are partial (functions on a subset of the names).                  *)
(***************************************************************************)
GLOBAL == "global"

AllSectionNames == <<"seq-read", "seq-write", "rand-read", "rand-write", "mixed">>

SectionNames == {GLOBAL} \cup Range(SubSeq(AllSectionNames, 1, MaxSections))

Keys == {"startdelay", "rw"}

\* the values an option may be given
Values(key) == IF key = "startdelay" THEN {"0", "5"} ELSE {"read"}

\* the keys of the documents the whole-program flow is run on
FlowKeys == {"startdelay"}

\* the key/value maps a section may hold
SectionMaps(keys) ==
  UNION {{m \in [K -> UNION {Values(k) : k \in K}] : \A k \in K : m[k] \in Values(k)} :
         K \in SUBSET keys}

\* every document over the given section names and keys
DocsOver(names, keys) == UNION {[S -> SectionMaps(keys)] : S \in SUBSET names}

\* Ini::sections(): the keys of the section map, in the map's iteration order.
\* The map type is HashMap unless the crate's indexmap feature is on, so the
\* iteration order is any ordering of the section names.
sections(ini) == Orderings(DOMAIN ini)

\* Ini::remove_section
remove_section(ini, key) == [s \in (DOMAIN ini) \ {key} |-> ini[s]]

\* Ini::set: insert into the section's map, creating the section if absent
ini_set(ini, section, key, value) ==
  IF section \in DOMAIN ini
    THEN [ini EXCEPT ![section] =
            [k \in (DOMAIN @) \cup {key} |-> IF k = key THEN value ELSE @[k]]]
    ELSE [s \in (DOMAIN ini) \cup {section} |->
            IF s = section THEN [k \in {key} |-> value] ELSE ini[s]]

\* main.rs:123-128, the inner loop: drop every section but the target and global
RECURSIVE remove_siblings(_, _, _)
remove_siblings(current_job, secs, section_name) ==
  IF secs = <<>> THEN current_job
  ELSE LET key == Head(secs) IN
       IF key = section_name \/ key = GLOBAL
         THEN remove_siblings(current_job, Tail(secs), section_name)
         ELSE remove_siblings(remove_section(current_job, key), Tail(secs), section_name)

\* mutant of current_job: the forced option is left out
current_job_unforced(config, secs, section_name) ==
  remove_siblings(config, secs, section_name)

\* main.rs:122-131, one iteration of the outer loop for a non-global section
current_job(config, secs, section_name) ==
  ini_set(remove_siblings(config, secs, section_name), section_name, "startdelay", "0")

\* mutant of split_loop: the global section is not skipped as a target
RECURSIVE split_loop_global_too(_, _, _)
split_loop_global_too(config, iter, secs) ==
  IF iter = <<>> THEN <<>>
  ELSE <<current_job(config, secs, Head(iter))>>
         \o split_loop_global_too(config, Tail(iter), secs)

\* main.rs:118-133, the outer loop over map.iter() in the order `iter`
RECURSIVE split_loop(_, _, _)
split_loop(config, iter, secs) ==
  IF iter = <<>> THEN <<>>
  ELSE LET section_name == Head(iter) IN
       IF section_name = GLOBAL
         THEN split_loop(config, Tail(iter), secs)
         ELSE <<current_job(config, secs, section_name)>>
                \o split_loop(config, Tail(iter), secs)

\* fio::gen_fio_job_configs; iter is the iteration order of map.iter(), secs
\* the vector config.sections() returned
gen_fio_job_configs(config, iter, secs) == split_loop(config, iter, secs)

NonGlobal(ini) == (DOMAIN ini) \ {GLOBAL}

(***************************************************************************)
(* Ini::writes: the job as the text run_jobs stores in temp.fio.  A text   *)
(* is a sequence of lines, a line a sequence of strings: a section header  *)
(* <<"[", name, "]">> followed by one <<key, "=", value>> per option.      *)
(* Sections and keys are written in one fixed order.                       *)
(***************************************************************************)
SectionOrder == <<GLOBAL>> \o AllSectionNames

KeyOrder == <<"rw", "startdelay">>

RECURSIVE write_keys(_, _)
write_keys(secmap, ks) ==
  IF ks = <<>> THEN <<>>
  ELSE (IF Head(ks) \in DOMAIN secmap
          THEN << <<Head(ks), "=", secmap[Head(ks)]>> >> ELSE <<>>)
       \o write_keys(secmap, Tail(ks))

RECURSIVE write_sections(_, _)
write_sections(ini, ss) ==
  IF ss = <<>> THEN <<>>
  ELSE (IF Head(ss) \in DOMAIN ini
          THEN << <<"[", Head(ss), "]">> >> \o write_keys(ini[Head(ss)], KeyOrder)
          ELSE <<>>)
       \o write_sections(ini, Tail(ss))

writes(ini) == write_sections(ini, SectionOrder)

(***************************************************************************)
(* The text fio prints, and its decoding (main.rs:158-170).                *)
(* A text is a sequence of characters.  The alphabet:                      *)
(*   "{" "}"   braces                                                      *)
(*   "a"       the member  "a":1                                           *)
(*   "g"       the member  "global options":{}                             *)
(*   "x"       any character that is neither JSON nor white space          *)
(*   " " NL    white space                                                 *)
(***************************************************************************)
NL == "\n"

WhiteSpace == {" ", NL}

NoiseLine == <<"x">>
ObjectLine == <<"{", "a", "}">>
OpenLine == <<"{">>
MemberLine == <<" ", "g">>
CloseLine == <<"}">>
IndentedObjectLine == <<" ", "{", "a", "}">>
EmptyLine == <<>>

LineVocabulary ==
  {NoiseLine, ObjectLine, OpenLine, MemberLine, CloseLine, IndentedObjectLine, EmptyLine}

\* slice::join("\n")
RECURSIVE join(_)
join(ls) ==
  IF ls = <<>> THEN <<>>
  ELSE IF Len(ls) = 1 THEN Head(ls)
  ELSE Head(ls) \o <<NL>> \o join(Tail(ls))

\* str::lines: split at each "\n"; a final empty piece is no line
RECURSIVE split_lines(_, _)
split_lines(text, cur) ==
  IF text = <<>> THEN (IF cur = <<>> THEN <<>> ELSE <<cur>>)
  ELSE IF Head(text) = NL THEN <<cur>> \o split_lines(Tail(text), <<>>)
  ELSE split_lines(Tail(text), Append(cur, Head(text)))

lines(text) == split_lines(text, <<>>)

\* str::starts_with('{')
starts_with_brace(s) == Len(s) > 0 /\ s[1] = "{"

\* mutant of skip_while_not_brace: no line is skipped
skip_nothing(ls) == ls

\* Iterator::skip_while(|line| !line.starts_with('{'))
RECURSIVE skip_while_not_brace(_)
skip_while_not_brace(ls) ==
  IF ls = <<>> THEN <<>>
  ELSE IF starts_with_brace(Head(ls)) THEN ls
  ELSE skip_while_not_brace(Tail(ls))

\* main.rs:159-167: the text handed to the JSON decoder
payload(output) ==
  IF starts_with_brace(output) THEN output
  ELSE join(skip_while_not_brace(lines(output)))

\* serde_json::from_str over the alphabet: white space, one object with at
\* most one member, white space, end of input.  Anything else is an error
\* (trailing characters, unexpected end, unexpected character).
json_step(st, c) ==
  CASE st = "start"  -> IF c \in WhiteSpace THEN "start"
                        ELSE IF c = "{" THEN "open" ELSE "error"
    [] st = "open"   -> IF c \in WhiteSpace THEN "open"
                        ELSE IF c = "a" THEN "member_a"
                        ELSE IF c = "g" THEN "member_g"
                        ELSE IF c = "}" THEN "closed_empty" ELSE "error"
    [] st \in {"member_a", "member_g"} ->
                        IF c \in WhiteSpace THEN st
                        ELSE IF c = "}"
                          THEN (IF st = "member_a" THEN "closed_a" ELSE "closed_g")
                          ELSE "error"
    [] st \in {"closed_empty", "closed_a", "closed_g"} ->
                        IF c \in WhiteSpace THEN st ELSE "error"
    [] OTHER -> "error"

RECURSIVE json_run(_, _)
json_run(st, text) ==
  IF text = <<>> THEN st ELSE json_run(json_step(st, Head(text)), Tail(text))

JsonError == [ok |-> FALSE, members |-> {}]

\* mutant of from_str: an empty text decodes to the empty object
from_str_lenient(text) ==
  LET st == json_run("start", text) IN
  CASE st \in {"closed_empty", "start"} -> [ok |-> TRUE, members |-> {}]
    [] st = "closed_a"     -> [ok |-> TRUE, members |-> {"a"}]
    [] st = "closed_g"     -> [ok |-> TRUE, members |-> {"global options"}]
    [] OTHER               -> JsonError

from_str(text) ==
  LET st == json_run("start", text) IN
  CASE st = "closed_empty" -> [ok |-> TRUE, members |-> {}]
    [] st = "closed_a"     -> [ok |-> TRUE, members |-> {"a"}]
    [] st = "closed_g"     -> [ok |-> TRUE, members |-> {"global options"}]
    [] OTHER               -> JsonError

\* what the fio binary may print on a successful run: a few representative
\* texts for the whole-program flow, every text of up to MaxLines lines for
\* the parser
CleanOutput == join(<<OpenLine, MemberLine, CloseLine>>) \o <<NL>>
BannerOutput == join(<<NoiseLine, NoiseLine, ObjectLine>>)
TrailingOutput == join(<<NoiseLine, NoiseLine, ObjectLine, NoiseLine>>)
NoJsonOutput == join(<<NoiseLine, IndentedObjectLine>>)

SampleOutputs == {CleanOutput, BannerOutput, TrailingOutput, NoJsonOutput}

AllOutputs ==
  {join(ls) \o tail : ls \in SeqUpTo(LineVocabulary, MaxLines), tail \in {<<>>, <<NL>>}}

FioOutputs(texts) == IF texts = "all" THEN AllOutputs ELSE SampleOutputs

NoFile == [exists |-> FALSE, text |-> <<>>]

NoValue == [some |-> FALSE, value |-> <<>>]

Some(v) == [some |-> TRUE, value |-> v]

VARIABLES
  pc,            \* position of the single thread of control
  panic_at,      \* where the thread panicked ("" while it has not)
  events,        \* history: <<kind, index>> of every external step so far
  bar,           \* position of the progress bar of the running loop
  \* ---- fio flow
  config,        \* the Job Document handed to the splitter
  jobs,          \* the jobs gen_fio_job_configs returned, run_jobs' argument
  fio_installed, \* environment: the fio binary is on the search path
  fio_texts,     \* environment: which texts fio may print ("samples" | "all")
  from_main,     \* run_jobs was called by main
  temp_fio,      \* the file temp.fio
  output,        \* stdout of the last fio run
  result,        \* run_jobs' local result vector
  ji,            \* index of the job the loop is at
  fio_result,    \* Some(value run_jobs returned)
  lookup,        \* what main read from fio_result[0]
  \* ---- disktest flow
  trial,         \* the loop index of run_write / run_verify
  warm,          \* the warmup trial is over
  results,       \* the retained results
  call_result,   \* the value the wrapped library call returned
  write_result,  \* Some(value run_write returned)
  verify_result, \* Some(value run_verify returned)
  lib,           \* the library call that is executing ("idle" if none)
  fd1, fd2,      \* what the process-wide descriptors 1 and 2 refer to
  orig_saved,    \* stdout_orig / stderr_orig are open
  writers_open,  \* stdout_writer / stderr_writer are open
  pipe_out, pipe_err,  \* the pipe is full: it holds a unit of unread text
  buf_out, buf_err,    \* the reader thread has read some text
  rd_out, rd_err       \* the reader threads: "none", "reading", "sent", "dead"

splitVars == <<config, jobs>>

fioVars == <<fio_installed, fio_texts, from_main, temp_fio, output, result, ji,
             fio_result, lookup>>

dtVars == <<trial, warm, results, call_result, write_result, verify_result, lib,
            fd1, fd2, orig_saved, writers_open, pipe_out, pipe_err, buf_out, buf_err,
            rd_out, rd_err>>

vars == <<pc, panic_at, events, bar, splitVars, fioVars, dtVars>>

Panic(where) == pc' = "panicked" /\ panic_at' = where

Log(kind, i) == events' = Append(events, <<kind, i>>)

FioIdle ==
  /\ fio_installed = TRUE /\ fio_texts = "samples" /\ from_main = FALSE
  /\ temp_fio = NoFile /\ output = <<>> /\ result = <<>> /\ ji = 0
  /\ fio_result = NoValue /\ lookup = ""

\* no capture is in progress: descriptors 1 and 2 are the process's own streams
CaptureIdle ==
  /\ fd1 = "stdout" /\ fd2 = "stderr"
  /\ orig_saved = FALSE /\ writers_open = FALSE
  /\ pipe_out = FALSE /\ pipe_err = FALSE /\ buf_out = FALSE /\ buf_err = FALSE
  /\ rd_out = "none" /\ rd_err = "none"

DisktestIdle ==
  /\ trial = 0 /\ warm = FALSE /\ results = <<>> /\ call_result = 0
  /\ write_result = NoValue /\ verify_result = NoValue /\ lib = "idle"
  /\ CaptureIdle

(***************************************************************************)
(* The splitter taken alone: any document in, the jobs out.                *)
(***************************************************************************)
InitSplit ==
  /\ pc = "split" /\ panic_at = "" /\ events = <<>>
  /\ config \in DocsOver(SectionNames, Keys)
  /\ jobs = <<>>
  /\ bar = 0
  /\ FioIdle
  /\ DisktestIdle

SplitCall ==
  /\ pc = "split"
  /\ \E iter \in sections(config), secs \in sections(config) :
       jobs' = gen_fio_job_configs(config, iter, secs)
  /\ pc' = "split_done"
  /\ UNCHANGED <<panic_at, events, config, bar, fioVars, dtVars>>

\* gen_fio_job_configs applied once more, to one of the jobs it returned
SplitAgain ==
  /\ pc = "split_done"
  /\ \E i \in 1..Len(jobs) :
       /\ config' = jobs[i]
       /\ \E iter \in sections(jobs[i]), secs \in sections(jobs[i]) :
            jobs' = gen_fio_job_configs(jobs[i], iter, secs)
  /\ pc' = "resplit_done"
  /\ UNCHANGED <<panic_at, events, bar, fioVars, dtVars>>

NextSplit == SplitCall \/ SplitAgain

SpecSplit == InitSplit /\ [][NextSplit]_vars

(***************************************************************************)
(* main, Backend::Fio (main.rs:380-401).                                   *)
(***************************************************************************)
\* Command::output(): whether the process could be started
SpawnOutcomes == IF fio_installed THEN {TRUE, FALSE} ELSE {FALSE}

\* fio::is_fio_available (main.rs:68-75) and the test at main.rs:384
MainProbe ==
  /\ pc = "main"
  /\ \E spawned \in SpawnOutcomes :
       pc' = IF spawned THEN "main_version" ELSE "main_config"
  /\ Log("probe", 0)
  /\ UNCHANGED <<panic_at, splitVars, bar, fioVars, dtVars>>

\* fio::get_fio_version (main.rs:78-88): expect() on the spawn, panic on a
\* non-zero status
MainVersionOk ==
  /\ pc = "main_version"
  /\ TRUE \in SpawnOutcomes
  /\ pc' = "main_config"
  /\ Log("version", 0)
  /\ UNCHANGED <<panic_at, splitVars, bar, fioVars, dtVars>>

MainVersionPanic ==
  /\ pc = "main_version"
  /\ Panic("get_fio_version")
  /\ Log("version", 0)
  /\ UNCHANGED <<splitVars, bar, fioVars, dtVars>>

\* main.rs:389-393: the configuration is split and handed to run_jobs
MainSplit ==
  /\ pc = "main_config"
  /\ \E iter \in sections(config), secs \in sections(config) :
       jobs' = gen_fio_job_configs(config, iter, secs)
  /\ pc' = "rj_entry"
  /\ UNCHANGED <<panic_at, events, config, bar, fioVars, dtVars>>

(***************************************************************************)
(* fio::run_jobs (main.rs:137-179).                                        *)
(***************************************************************************)
\* main.rs:139-143
RjEntry ==
  /\ pc = "rj_entry"
  /\ result' = <<>> /\ bar' = 0 /\ ji' = 1
  /\ pc' = "rj_next"
  /\ UNCHANGED <<panic_at, events, splitVars, fio_installed, fio_texts, from_main,
                 temp_fio, output, fio_result, lookup, dtVars>>

\* mutant of RjSerialize: the file is opened for appending, not truncated
RjSerializeAppends ==
  /\ pc = "rj_next" /\ ji <= Len(jobs)
  /\ temp_fio' = [exists |-> TRUE, text |-> temp_fio.text \o writes(jobs[ji])]
  /\ pc' = "rj_launch"
  /\ Log("serialize", ji)
  /\ UNCHANGED <<panic_at, splitVars, fio_installed, fio_texts, from_main, output,
                 result, bar, ji, fio_result, lookup, dtVars>>

\* main.rs:145-148: the job is serialized into temp.fio, which File::create
\* truncates if it exists
RjSerialize ==
  /\ pc = "rj_next" /\ ji <= Len(jobs)
  /\ temp_fio' = [exists |-> TRUE, text |-> writes(jobs[ji])]
  /\ pc' = "rj_launch"
  /\ Log("serialize", ji)
  /\ UNCHANGED <<panic_at, splitVars, fio_installed, fio_texts, from_main, output,
                 result, bar, ji, fio_result, lookup, dtVars>>

\* main.rs:146: File::create fails, expect() panics; the file is untouched
RjCreateFails ==
  /\ pc = "rj_next" /\ ji <= Len(jobs)
  /\ Panic("create_temp")
  /\ UNCHANGED <<events, splitVars, bar, fioVars, dtVars>>

\* main.rs:148: write_all fails after the file was created (truncated)
RjWriteFails ==
  /\ pc = "rj_next" /\ ji <= Len(jobs)
  /\ temp_fio' = [exists |-> TRUE, text |-> <<>>]
  /\ Panic("write_temp")
  /\ UNCHANGED <<events, splitVars, fio_installed, fio_texts, from_main, output,
                 result, bar, ji, fio_result, lookup, dtVars>>

\* main.rs:150-154: the binary cannot be started, expect() panics
RjLaunchSpawnFails ==
  /\ pc = "rj_launch"
  /\ FALSE \in SpawnOutcomes
  /\ Panic("spawn_fio")
  /\ Log("launch", ji)
  /\ UNCHANGED <<splitVars, bar, fioVars, dtVars>>

\* mutant of RjLaunchNonZero: the failing job is skipped and the loop goes on
RjLaunchNonZeroSkips ==
  /\ pc = "rj_launch"
  /\ TRUE \in SpawnOutcomes
  /\ pc' = "rj_sleep"
  /\ Log("launch", ji)
  /\ UNCHANGED <<panic_at, splitVars, bar, fioVars, dtVars>>

\* main.rs:155-157: fio ran and exited with a non-zero status
RjLaunchNonZero ==
  /\ pc = "rj_launch"
  /\ TRUE \in SpawnOutcomes
  /\ Panic("fio_status")
  /\ Log("launch", ji)
  /\ UNCHANGED <<splitVars, bar, fioVars, dtVars>>

\* main.rs:150-158: fio ran, exited with status 0 and printed some text
RjLaunchOk ==
  /\ pc = "rj_launch"
  /\ TRUE \in SpawnOutcomes
  /\ \E text \in FioOutputs(fio_texts) :
       /\ output' = text
       /\ events' = events \o << <<"launch", ji>>, <<"printed", text>> >>
  /\ pc' = "rj_parse"
  /\ UNCHANGED <<panic_at, splitVars, fio_installed, fio_texts, from_main, temp_fio,
                 result, bar, ji, fio_result, lookup, dtVars>>

\* mutant of RjParseOk: the value is put at the front of the vector
RjParseOkPrepends ==
  /\ pc = "rj_parse"
  /\ from_str(payload(output)).ok
  /\ result' = <<from_str(payload(output))>> \o result
  /\ bar' = bar + 1
  /\ pc' = "rj_sleep"
  /\ UNCHANGED <<panic_at, events, splitVars, fio_installed, fio_texts, from_main,
                 temp_fio, output, ji, fio_result, lookup, dtVars>>

\* main.rs:159-173: the text decodes; the value is pushed, the bar advanced
RjParseOk ==
  /\ pc = "rj_parse"
  /\ from_str(payload(output)).ok
  /\ result' = Append(result, from_str(payload(output)))
  /\ bar' = bar + 1
  /\ pc' = "rj_sleep"
  /\ UNCHANGED <<panic_at, events, splitVars, fio_installed, fio_texts, from_main,
                 temp_fio, output, ji, fio_result, lookup, dtVars>>

\* main.rs:168-170: the text does not decode, expect() panics
RjParseFails ==
  /\ pc = "rj_parse"
  /\ ~from_str(payload(output)).ok
  /\ Panic("parse_json")
  /\ UNCHANGED <<events, splitVars, bar, fioVars, dtVars>>

\* main.rs:174-176: the 5 s sleep that ends the iteration
RjSleep ==
  /\ pc = "rj_sleep"
  /\ ji' = ji + 1
  /\ pc' = "rj_next"
  /\ Log("sleep", ji)
  /\ UNCHANGED <<panic_at, splitVars, fio_installed, fio_texts, from_main, temp_fio,
                 output, result, bar, fio_result, lookup, dtVars>>

\* main.rs:177-178: the loop is over, the vector is returned
RjReturn ==
  /\ pc = "rj_next" /\ ji > Len(jobs)
  /\ fio_result' = Some(result)
  /\ pc' = IF from_main THEN "main_lookup" ELSE "rj_returned"
  /\ UNCHANGED <<panic_at, events, splitVars, fio_installed, fio_texts, from_main,
                 temp_fio, output, result, bar, ji, lookup, dtVars>>

\* main.rs:395-400: fio_result[0].get("global options"), "unknown" if absent
MainLookupOk ==
  /\ pc = "main_lookup"
  /\ fio_result.value # <<>>
  /\ lookup' = IF "global options" \in fio_result.value[1].members
                 THEN "global options" ELSE "unknown"
  /\ pc' = "main_done"
  /\ UNCHANGED <<panic_at, events, splitVars, fio_installed, fio_texts, from_main,
                 temp_fio, output, result, bar, ji, fio_result, dtVars>>

\* main.rs:397: indexing an empty vector panics
MainLookupPanic ==
  /\ pc = "main_lookup"
  /\ fio_result.value = <<>>
  /\ Panic("index_fio_result")
  /\ UNCHANGED <<events, splitVars, bar, fioVars, dtVars>>

NextRunJobs ==
  \/ RjEntry \/ RjSerialize \/ RjCreateFails \/ RjWriteFails
  \/ RjLaunchSpawnFails \/ RjLaunchNonZero \/ RjLaunchOk
  \/ RjParseOk \/ RjParseFails \/ RjSleep \/ RjReturn

NextFio ==
  \/ MainProbe \/ MainVersionOk \/ MainVersionPanic \/ MainSplit
  \/ NextRunJobs
  \/ MainLookupOk \/ MainLookupPanic

\* a job of one section
ParserJob == [s \in {GLOBAL, "seq-read"} |-> [k \in {"startdelay"} |-> "0"]]

\* temp.fio as an earlier run left it
StaleFile == [exists |-> TRUE, text |-> writes(ParserJob)]

\* the whole Backend::Fio flow of main, on any small document
InitFio ==
  /\ pc = "main" /\ panic_at = "" /\ events = <<>>
  /\ config \in DocsOver(SectionNames, FlowKeys)
  /\ jobs = <<>>
  /\ fio_installed \in BOOLEAN /\ fio_texts = "samples" /\ from_main = TRUE
  /\ temp_fio \in {NoFile, StaleFile}
  /\ output = <<>> /\ result = <<>> /\ bar = 0 /\ ji = 0
  /\ fio_result = NoValue /\ lookup = ""
  /\ DisktestIdle

SpecFio == InitFio /\ [][NextFio]_vars

\* run_jobs on one job, fio printing any text of up to MaxLines lines
InitParse ==
  /\ pc = "rj_entry" /\ panic_at = "" /\ events = <<>>
  /\ config = ParserJob
  /\ jobs = <<ParserJob>>
  /\ fio_installed = TRUE /\ fio_texts = "all" /\ from_main = FALSE
  /\ temp_fio = NoFile
  /\ output = <<>> /\ result = <<>> /\ bar = 0 /\ ji = 0
  /\ fio_result = NoValue /\ lookup = ""
  /\ DisktestIdle

SpecParse == InitParse /\ [][NextRunJobs]_vars


(***************************************************************************)
(* main, Backend::Disktest (main.rs:402-407): run_write, then run_verify.  *)
(***************************************************************************)
ResultValues == 0..MaxResult

\* mutant of aggregate: the warmup trial is counted in the divisor
aggregate_over_all(rs) ==
  IF Len(rs) = 0 THEN NoValue ELSE Some(SumSeq(rs) \div (Len(rs) + 1))

\* mutant of aggregate: an empty vector yields the mean 0
aggregate_zero_on_empty(rs) ==
  IF Len(rs) = 0 THEN Some(0) ELSE Some(SumSeq(rs) \div Len(rs))

\* main.rs:321 and 351: fold(0, +) / results.len(); the u64 division panics
\* when the vector is empty
aggregate(rs) ==
  IF Len(rs) = 0 THEN NoValue ELSE Some(SumSeq(rs) \div Len(rs))

trialVars == <<trial, warm, results, call_result, write_result, verify_result>>

fdVars == <<fd1, fd2, orig_saved, writers_open>>

pipeVars == <<pipe_out, pipe_err, buf_out, buf_err>>

rdVars == <<rd_out, rd_err>>

fioSide == <<splitVars, fioVars>>

\* main.rs:403 and 266-273: run_write is entered
MainWrite ==
  /\ pc = "dt_main"
  /\ trial' = 0 /\ warm' = FALSE /\ results' = <<>> /\ bar' = 0
  /\ pc' = "w_loop"
  /\ UNCHANGED <<panic_at, events, call_result, write_result, verify_result, lib,
                 fdVars, pipeVars, rdVars, fioSide>>

\* main.rs:274-284: the next trial opens the target and builds the engine
WOpenOk ==
  /\ pc = "w_loop" /\ trial < TrialCount
  /\ pc' = "cap_dup"
  /\ UNCHANGED <<panic_at, events, bar, dtVars, fioSide>>

\* main.rs:275: DisktestFile::open returns Err, unwrap() panics
WOpenFails ==
  /\ pc = "w_loop" /\ trial < TrialCount
  /\ Panic("open_write")
  /\ Log("write_open_err", trial)
  /\ UNCHANGED <<bar, dtVars, fioSide>>

(***************************************************************************)
(* disktest::capture_disktest_output (main.rs:196-264).  pipe() and dup2() *)
(* are taken to succeed: the code does not look at what they return.       *)
(***************************************************************************)
\* main.rs:198-200: both descriptors are duplicated
CapDupOk ==
  /\ pc = "cap_dup"
  /\ orig_saved' = TRUE
  /\ pc' = "cap_setup"
  /\ UNCHANGED <<panic_at, events, bar, trialVars, lib, fd1, fd2, writers_open,
                 pipeVars, rdVars, fioSide>>

\* main.rs:200: a dup failed, the assertion panics before anything is redirected
CapDupFails ==
  /\ pc = "cap_dup"
  /\ Panic("dup")
  /\ UNCHANGED <<events, bar, dtVars, fioSide>>

\* main.rs:202-238: the pipes are made, descriptors 1 and 2 are pointed at
\* their write ends, the two reader threads are started
CapSetup ==
  /\ pc = "cap_setup"
  /\ fd1' = "pipe_out" /\ fd2' = "pipe_err"
  /\ writers_open' = TRUE
  /\ rd_out' = "reading" /\ rd_err' = "reading"
  /\ pc' = "cap_call"
  /\ UNCHANGED <<panic_at, events, bar, trialVars, lib, orig_saved, pipeVars, fioSide>>

\* main.rs:241 and 290: f() is called, disktest.write starts
CapCall ==
  /\ pc = "cap_call"
  /\ lib' = "write"
  /\ pc' = "cap_in_f"
  /\ Log("write_call", trial)
  /\ UNCHANGED <<panic_at, bar, trialVars, fdVars, pipeVars, rdVars, fioSide>>

\* the library prints to descriptor 1, any number of times: it enters a
\* write of a unit of text, one pipe-full
LibBeginPrintOut ==
  /\ pc = "cap_in_f"
  /\ pc' = "cap_wr_out"
  /\ UNCHANGED <<panic_at, events, bar, dtVars, fioSide>>

\* the write to descriptor 1 completes once the pipe has room: it blocks
\* while the pipe is full
LibPrintOut ==
  /\ pc = "cap_wr_out"
  /\ fd1 = "pipe_out" /\ ~pipe_out
  /\ pipe_out' = TRUE
  /\ pc' = "cap_in_f"
  /\ UNCHANGED <<panic_at, events, bar, trialVars, lib, fdVars, pipe_err, buf_out,
                 buf_err, rdVars, fioSide>>

\* the library prints to descriptor 2
LibBeginPrintErr ==
  /\ pc = "cap_in_f"
  /\ pc' = "cap_wr_err"
  /\ UNCHANGED <<panic_at, events, bar, dtVars, fioSide>>

LibPrintErr ==
  /\ pc = "cap_wr_err"
  /\ fd2 = "pipe_err" /\ ~pipe_err
  /\ pipe_err' = TRUE
  /\ pc' = "cap_in_f"
  /\ UNCHANGED <<panic_at, events, bar, trialVars, lib, fdVars, pipe_out, buf_out,
                 buf_err, rdVars, fioSide>>

\* main.rs:290-291: disktest.write returns Ok(bytes)
LibWriteOk ==
  /\ pc = "cap_in_f"
  /\ \E v \in ResultValues :
       /\ call_result' = v
       /\ Log("write_result", v)
  /\ lib' = "idle"
  /\ pc' = "cap_restore"
  /\ UNCHANGED <<panic_at, bar, trial, warm, results, write_result, verify_result,
                 fdVars, pipeVars, rdVars, fioSide>>

\* main.rs:292: disktest.write returns Err, which the closure turns into 0
LibWriteErr ==
  /\ pc = "cap_in_f"
  /\ call_result' = 0
  /\ Log("write_err", 0)
  /\ lib' = "idle"
  /\ pc' = "cap_restore"
  /\ UNCHANGED <<panic_at, bar, trial, warm, results, write_result, verify_result,
                 fdVars, pipeVars, rdVars, fioSide>>

\* main.rs:241: the wrapped call panics; unwinding drops the two writers and
\* skips main.rs:243-261
LibWritePanic ==
  /\ pc = "cap_in_f"
  /\ Panic("lib_write")
  /\ Log("write_panic", trial)
  /\ lib' = "idle"
  /\ writers_open' = FALSE
  /\ UNCHANGED <<bar, trialVars, fd1, fd2, orig_saved, pipeVars, rdVars, fioSide>>

\* main.rs:243-249: descriptors 1 and 2 are pointed back, the copies closed
CapRestore ==
  /\ pc = "cap_restore"
  /\ fd1' = "stdout" /\ fd2' = "stderr"
  /\ orig_saved' = FALSE
  /\ pc' = "cap_drop"
  /\ UNCHANGED <<panic_at, events, bar, trialVars, lib, writers_open, pipeVars, rdVars,
                 fioSide>>

\* main.rs:251-253: the writers are dropped
CapDropWriters ==
  /\ pc = "cap_drop"
  /\ writers_open' = FALSE
  /\ pc' = "cap_recv_out"
  /\ UNCHANGED <<panic_at, events, bar, trialVars, lib, fd1, fd2, orig_saved, pipeVars,
                 rdVars, fioSide>>

\* main.rs:256: the stdout reader has sent its buffer
CapRecvOut ==
  /\ pc = "cap_recv_out"
  /\ rd_out = "sent"
  /\ pc' = "cap_recv_err"
  /\ UNCHANGED <<panic_at, events, bar, dtVars, fioSide>>

\* main.rs:256: the stdout reader died without sending, recv().unwrap() panics
CapRecvOutFails ==
  /\ pc = "cap_recv_out"
  /\ rd_out = "dead"
  /\ Panic("recv_stdout")
  /\ UNCHANGED <<events, bar, dtVars, fioSide>>

\* main.rs:257
CapRecvErr ==
  /\ pc = "cap_recv_err"
  /\ rd_err = "sent"
  /\ pc' = "cap_join"
  /\ UNCHANGED <<panic_at, events, bar, dtVars, fioSide>>

\* main.rs:257: the stderr reader died without sending
CapRecvErrFails ==
  /\ pc = "cap_recv_err"
  /\ rd_err = "dead"
  /\ Panic("recv_stderr")
  /\ UNCHANGED <<events, bar, dtVars, fioSide>>

\* main.rs:259-263: both threads are joined, the call returns
CapJoin ==
  /\ pc = "cap_join"
  /\ rd_out' = "none" /\ rd_err' = "none"
  /\ pipe_out' = FALSE /\ pipe_err' = FALSE /\ buf_out' = FALSE /\ buf_err' = FALSE
  /\ pc' = "w_after"
  /\ UNCHANGED <<panic_at, events, bar, trialVars, lib, fdVars, fioSide>>

\* the wrapped call is executing
InWrappedCall == pc \in {"cap_in_f", "cap_wr_out", "cap_wr_err"}

InCapture ==
  \/ pc \in {"cap_dup", "cap_setup", "cap_call", "cap_restore", "cap_drop",
             "cap_recv_out", "cap_recv_err", "cap_join"}
  \/ InWrappedCall

\* a write end of the pipe is open: the reader cannot see end-of-file yet
OutWriteEndOpen == fd1 = "pipe_out" \/ writers_open
ErrWriteEndOpen == fd2 = "pipe_err" \/ writers_open

\* mutant of ReaderOutRead: the pipe is read only after the wrapped call is over
ReaderOutReadAfterCall ==
  /\ InCapture /\ rd_out = "reading"
  /\ ~InWrappedCall
  /\ pipe_out
  /\ pipe_out' = FALSE /\ buf_out' = TRUE
  /\ UNCHANGED <<pc, panic_at, events, bar, trialVars, lib, fdVars, pipe_err, buf_err,
                 rdVars, fioSide>>

\* main.rs:227-231, the stdout reader thread: read_to_string takes what is in
\* the pipe
ReaderOutRead ==
  /\ InCapture /\ rd_out = "reading"
  /\ pipe_out
  /\ pipe_out' = FALSE /\ buf_out' = TRUE
  /\ UNCHANGED <<pc, panic_at, events, bar, trialVars, lib, fdVars, pipe_err, buf_err,
                 rdVars, fioSide>>

\* main.rs:229-230: end of file, the buffer is sent, the thread ends
ReaderOutEof ==
  /\ InCapture /\ rd_out = "reading"
  /\ ~pipe_out /\ ~OutWriteEndOpen
  /\ rd_out' = "sent"
  /\ UNCHANGED <<pc, panic_at, events, bar, trialVars, lib, fdVars, pipeVars, rd_err,
                 fioSide>>

\* main.rs:229: what was read is not UTF-8, read_to_string returns Err, the
\* thread panics and its sender is dropped
ReaderOutFails ==
  /\ InCapture /\ rd_out = "reading"
  /\ ~pipe_out /\ ~OutWriteEndOpen /\ buf_out
  /\ rd_out' = "dead"
  /\ UNCHANGED <<pc, panic_at, events, bar, trialVars, lib, fdVars, pipeVars, rd_err,
                 fioSide>>

\* main.rs:234-238, the stderr reader thread
ReaderErrRead ==
  /\ InCapture /\ rd_err = "reading"
  /\ pipe_err
  /\ pipe_err' = FALSE /\ buf_err' = TRUE
  /\ UNCHANGED <<pc, panic_at, events, bar, trialVars, lib, fdVars, pipe_out, buf_out,
                 rdVars, fioSide>>

ReaderErrEof ==
  /\ InCapture /\ rd_err = "reading"
  /\ ~pipe_err /\ ~ErrWriteEndOpen
  /\ rd_err' = "sent"
  /\ UNCHANGED <<pc, panic_at, events, bar, trialVars, lib, fdVars, pipeVars, rd_out,
                 fioSide>>

ReaderErrFails ==
  /\ InCapture /\ rd_err = "reading"
  /\ ~pipe_err /\ ~ErrWriteEndOpen /\ buf_err
  /\ rd_err' = "dead"
  /\ UNCHANGED <<pc, panic_at, events, bar, trialVars, lib, fdVars, pipeVars, rd_out,
                 fioSide>>

NextCapture ==
  \/ CapDupOk \/ CapDupFails \/ CapSetup \/ CapCall
  \/ LibBeginPrintOut \/ LibPrintOut \/ LibBeginPrintErr \/ LibPrintErr
  \/ LibWriteOk \/ LibWriteErr \/ LibWritePanic
  \/ CapRestore \/ CapDropWriters
  \/ CapRecvOut \/ CapRecvOutFails \/ CapRecvErr \/ CapRecvErrFails \/ CapJoin
  \/ ReaderOutRead \/ ReaderOutEof \/ ReaderOutFails
  \/ ReaderErrRead \/ ReaderErrEof \/ ReaderErrFails

\* capture_disktest_output taken alone, entered from the first write trial
InitCapture ==
  /\ pc = "cap_dup" /\ panic_at = "" /\ events = <<>>
  /\ config = ParserJob /\ jobs = <<>>
  /\ bar = 0
  /\ FioIdle
  /\ DisktestIdle

\* the steps of the calling thread inside capture_disktest_output, the
\* library's blocking writes included
CaptureThreadStep ==
  \/ CapDupOk \/ CapDupFails \/ CapSetup \/ CapCall
  \/ LibBeginPrintOut \/ LibPrintOut \/ LibBeginPrintErr \/ LibPrintErr
  \/ LibWriteOk \/ LibWriteErr \/ LibWritePanic
  \/ CapRestore \/ CapDropWriters
  \/ CapRecvOut \/ CapRecvOutFails \/ CapRecvErr \/ CapRecvErrFails \/ CapJoin

\* Scheduling: each of the three threads runs when it can take a step (the
\* calling thread, the two reader threads main.rs:227 and 234 spawn), a write
\* to a pipe with room completes, and the wrapped call is one that ends.
FairCapture ==
  /\ WF_vars(CaptureThreadStep)
  /\ WF_vars(LibPrintOut) /\ WF_vars(LibPrintErr)
  /\ WF_vars(ReaderOutRead \/ ReaderOutEof \/ ReaderOutFails)
  /\ WF_vars(ReaderErrRead \/ ReaderErrEof \/ ReaderErrFails)
  /\ SF_vars(LibWriteOk \/ LibWriteErr \/ LibWritePanic)

SpecCapture == InitCapture /\ [][NextCapture]_vars /\ FairCapture

(***************************************************************************)
(* disktest::run_write (main.rs:266-323), around the capture.              *)
(***************************************************************************)
\* mutant of WAfter: the bar advances only for a trial whose result is retained
WAfterBarWhenWarm ==
  /\ pc = "w_after"
  /\ bar' = IF warm THEN bar + 1 ELSE bar
  /\ results' = IF warm THEN Append(results, call_result) ELSE results
  /\ warm' = TRUE
  /\ pc' = "w_sleep"
  /\ UNCHANGED <<panic_at, events, trial, call_result, write_result, verify_result, lib,
                 fdVars, pipeVars, rdVars, fioSide>>

\* main.rs:295-315: the bar advances, the result is pushed unless this was
\* the warmup trial
WAfter ==
  /\ pc = "w_after"
  /\ bar' = bar + 1
  /\ results' = IF warm THEN Append(results, call_result) ELSE results
  /\ warm' = TRUE
  /\ pc' = "w_sleep"
  /\ UNCHANGED <<panic_at, events, trial, call_result, write_result, verify_result, lib,
                 fdVars, pipeVars, rdVars, fioSide>>

\* main.rs:316-317: the 5 s sleep that ends the iteration
WSleep ==
  /\ pc = "w_sleep"
  /\ trial' = trial + 1
  /\ pc' = "w_loop"
  /\ Log("sleep", trial)
  /\ UNCHANGED <<panic_at, bar, warm, results, call_result, write_result, verify_result,
                 lib, fdVars, pipeVars, rdVars, fioSide>>

\* main.rs:319-322: the loop is over, the mean is returned to main
WFinish ==
  /\ pc = "w_loop" /\ trial >= TrialCount
  /\ IF aggregate(results).some
       THEN /\ write_result' = aggregate(results)
            /\ pc' = "w_returned"
            /\ UNCHANGED panic_at
       ELSE /\ Panic("divide_by_zero")
            /\ UNCHANGED write_result
  /\ UNCHANGED <<events, bar, trial, warm, results, call_result, verify_result, lib,
                 fdVars, pipeVars, rdVars, fioSide>>

(***************************************************************************)
(* disktest::run_verify (main.rs:325-353).                                 *)
(***************************************************************************)
\* main.rs:404-405 and 325-331: run_verify is entered.  The history starts
\* afresh: it is the history of the running loop.
MainVerify ==
  /\ pc = "w_returned"
  /\ trial' = 0 /\ warm' = FALSE /\ results' = <<>> /\ bar' = 0
  /\ events' = <<>>
  /\ pc' = "v_loop"
  /\ UNCHANGED <<panic_at, call_result, write_result, verify_result, lib,
                 fdVars, pipeVars, rdVars, fioSide>>

\* main.rs:332-343: the target is opened, the engine built, disktest.verify
\* called, with no capture around it
VCall ==
  /\ pc = "v_loop" /\ trial < TrialCount
  /\ lib' = "verify"
  /\ pc' = "v_in_verify"
  /\ Log("verify_call", trial)
  /\ UNCHANGED <<panic_at, bar, trialVars, fdVars, pipeVars, rdVars, fioSide>>

\* main.rs:333: DisktestFile::open returns Err, unwrap() panics
VOpenFails ==
  /\ pc = "v_loop" /\ trial < TrialCount
  /\ Panic("open_verify")
  /\ Log("verify_open_err", trial)
  /\ UNCHANGED <<bar, dtVars, fioSide>>

\* main.rs:343-348: verify returns Ok(bytes); the bar advances, the result is
\* pushed unless this was the warmup trial; the next iteration follows at once
VerifyOk ==
  /\ pc = "v_in_verify"
  /\ \E v \in ResultValues :
       /\ call_result' = v
       /\ results' = IF warm THEN Append(results, v) ELSE results
       /\ Log("verify_result", v)
  /\ bar' = bar + 1
  /\ warm' = TRUE
  /\ trial' = trial + 1
  /\ lib' = "idle"
  /\ pc' = "v_loop"
  /\ UNCHANGED <<panic_at, write_result, verify_result, fdVars, pipeVars, rdVars,
                 fioSide>>

\* mutant of VerifyErr: the failure is absorbed as 0, as run_write does
VerifyErrAbsorbed ==
  /\ pc = "v_in_verify"
  /\ call_result' = 0
  /\ results' = IF warm THEN Append(results, 0) ELSE results
  /\ Log("verify_err", trial)
  /\ bar' = bar + 1
  /\ warm' = TRUE
  /\ trial' = trial + 1
  /\ lib' = "idle"
  /\ pc' = "v_loop"
  /\ UNCHANGED <<panic_at, write_result, verify_result, fdVars, pipeVars, rdVars,
                 fioSide>>

\* main.rs:343: verify returns Err, unwrap() panics
VerifyErr ==
  /\ pc = "v_in_verify"
  /\ Panic("verify")
  /\ Log("verify_err", trial)
  /\ lib' = "idle"
  /\ UNCHANGED <<bar, trialVars, fdVars, pipeVars, rdVars, fioSide>>

\* main.rs:343: the library call itself panics
VerifyPanic ==
  /\ pc = "v_in_verify"
  /\ Panic("lib_verify")
  /\ Log("verify_panic", trial)
  /\ lib' = "idle"
  /\ UNCHANGED <<bar, trialVars, fdVars, pipeVars, rdVars, fioSide>>

\* main.rs:350-352: the loop is over, the mean is returned to main
VFinish ==
  /\ pc = "v_loop" /\ trial >= TrialCount
  /\ IF aggregate(results).some
       THEN /\ verify_result' = aggregate(results)
            /\ pc' = "dt_done"
            /\ UNCHANGED panic_at
       ELSE /\ Panic("divide_by_zero")
            /\ UNCHANGED verify_result
  /\ UNCHANGED <<events, bar, trial, warm, results, call_result, write_result, lib,
                 fdVars, pipeVars, rdVars, fioSide>>

NextAggregate == WFinish \/ VFinish

NextDisktest ==
  \/ MainWrite \/ WOpenOk \/ WOpenFails
  \/ NextCapture
  \/ WAfter \/ WSleep
  \/ MainVerify \/ VCall \/ VOpenFails \/ VerifyOk \/ VerifyErr \/ VerifyPanic
  \/ NextAggregate

InitDisktest ==
  /\ pc = "dt_main" /\ panic_at = "" /\ events = <<>>
  /\ config = ParserJob /\ jobs = <<>>
  /\ bar = 0
  /\ FioIdle
  /\ DisktestIdle

SpecDisktest == InitDisktest /\ [][NextDisktest]_vars

\* main (main.rs:379-408): the backend chosen on the command line decides
\* which of the two flows runs
InitMain == InitFio \/ InitDisktest

NextMain == NextFio \/ NextDisktest

SpecMain == InitMain /\ [][NextMain]_vars

\* the aggregation step taken alone: the loop of run_write or run_verify is
\* over with any number 0..TrialCount-1 of retained results
InitAggregate ==
  /\ pc \in {"w_loop", "v_loop"} /\ panic_at = "" /\ events = <<>>
  /\ config = ParserJob /\ jobs = <<>>
  /\ FioIdle
  /\ trial = TrialCount /\ warm = TRUE
  /\ results \in SeqUpTo(ResultValues, TrialCount - 1)
  /\ bar = Len(results) + 1
  /\ call_result = 0 /\ write_result = NoValue /\ verify_result = NoValue
  /\ lib = "idle"
  /\ CaptureIdle

SpecAggregate == InitAggregate /\ [][NextAggregate]_vars

(***************************************************************************)
(* Properties.                                                             *)
(***************************************************************************)
\* the indices logged with events of the given kinds, in order
EventsIn(kinds) ==
  LET sel == SelectSeq(events, LAMBDA e : e[1] \in kinds)
  IN  [i \in 1..Len(sel) |-> sel[i][2]]

EventsOf(kind) == EventsIn({kind})

Iota(n) == [i \in 1..n |-> i]

\* C1: for a document with n >= 0 sections besides global, the splitter
\* returns exactly n jobs; each job holds the document's global section
\* unchanged plus exactly one other section and no sibling, that section has
\* startdelay = "0", and every non-global section is retained by exactly one job.
C1_SplitYieldsOneJobPerSection ==
  pc = "split_done" =>
    /\ Len(jobs) = Cardinality(NonGlobal(config))
    /\ \A i \in 1..Len(jobs) :
         \E s \in NonGlobal(config) :
           /\ DOMAIN jobs[i] = {s} \cup ({GLOBAL} \cap DOMAIN config)
           /\ GLOBAL \in DOMAIN config => jobs[i][GLOBAL] = config[GLOBAL]
           /\ "startdelay" \in DOMAIN jobs[i][s]
           /\ jobs[i][s]["startdelay"] = "0"
    /\ \A s \in NonGlobal(config) :
         Cardinality({i \in 1..Len(jobs) : s \in DOMAIN jobs[i]}) = 1

\* C1 witness: a document with global and two sections, one of which asked for
\* another startdelay, has been split into two jobs
C1_Witness ==
  /\ pc = "split_done"
  /\ GLOBAL \in DOMAIN config /\ DOMAIN config[GLOBAL] # {}
  /\ Cardinality(NonGlobal(config)) = 2
  /\ \E s \in NonGlobal(config) :
       "startdelay" \in DOMAIN config[s] /\ config[s]["startdelay"] = "5"
  /\ Len(jobs) = 2

\* the parser has run on `output`
ParseAttempted ==
  \/ pc \in {"rj_sleep", "rj_returned", "main_lookup", "main_done"}
  \/ pc = "rj_next" /\ ji > 1
  \/ pc = "panicked" /\ panic_at \in {"parse_json", "index_fio_result"}

\* the value decoded from the last output was pushed
Decoded(members) ==
  /\ pc = "rj_sleep"
  /\ Len(result) = ji
  /\ result[ji] = [ok |-> TRUE, members |-> members]

ParseFailed == pc = "panicked" /\ panic_at = "parse_json"

NoBrace(ls) == \A i \in 1..Len(ls) : ~starts_with_brace(ls[i])

\* the text is k >= 1 lines not starting with "{", then the line {"a":1},
\* then the lines `rest`
BannerThenObject(text, rest) ==
  \E k \in 1..MaxLines :
    LET ls == lines(text) IN
    /\ Len(ls) = k + 1 + Len(rest)
    /\ NoBrace(SubSeq(ls, 1, k))
    /\ ls[k + 1] = ObjectLine
    /\ SubSeq(ls, k + 2, Len(ls)) = rest

\* C4 as stated: banner lines, the object line, then a trailing non-JSON line:
\* the lines before the first "{" are ignored and {"a":1} is decoded.
C4_TrailingLineDecodes ==
  (ParseAttempted /\ BannerThenObject(output, <<NoiseLine>>)) => Decoded({"a"})

\* C4 amended: banner lines followed by the object line decode to {"a":1}
\* exactly when only white space follows the object line; a non-JSON line
\* after it belongs to the payload and the decoding fails.
C4_BannerSkippedPayloadRunsToEnd ==
  \A rest \in SeqUpTo({EmptyLine, NoiseLine}, 2) :
    (pc \in {"rj_sleep", "panicked"} /\ ParseAttempted /\ BannerThenObject(output, rest)) =>
      IF NoiseLine \in Range(rest) THEN ParseFailed ELSE Decoded({"a"})

\* C4 witness: "noise / more noise / {"a":1}" has been decoded
C4_Witness ==
  /\ pc = "rj_sleep"
  /\ output = BannerOutput
  /\ result = <<[ok |-> TRUE, members |-> {"a"}]>>

\* C5: when no line of the output starts with "{", parsing fails and nothing
\* is appended to the result list for that job.
C5_NoBraceLineFails ==
  (ParseAttempted /\ NoBrace(lines(output))) =>
    /\ ParseFailed
    /\ Len(result) = ji - 1
    /\ fio_result = NoValue

\* C5 witness: a non-empty text without any line starting with "{" was parsed
C5_Witness ==
  /\ ParseFailed
  /\ output # <<>> /\ NoBrace(lines(output))
  /\ IndentedObjectLine \in Range(lines(output))

RunJobsFailures == {"create_temp", "write_temp", "spawn_fio", "fio_status", "parse_json"}

\* C6: the first job that cannot be started, exits non-zero or prints
\* undecodable text aborts the run: jobs are launched once each in list
\* order (no retry), a launch without a pushed result is either still being
\* parsed or has ended the run, and after such an end nothing more is
\* serialized or launched and run_jobs has returned nothing.
C6_FirstFailureAborts ==
  /\ EventsOf("launch") = Iota(Len(EventsOf("launch")))
  /\ EventsOf("serialize") = Iota(Len(EventsOf("serialize")))
  /\ Len(EventsOf("serialize")) - Len(EventsOf("launch")) \in {0, 1}
  /\ Len(result) < Len(EventsOf("launch")) =>
       \/ pc = "rj_parse" /\ Len(result) = ji - 1
       \/ /\ pc = "panicked"
          /\ panic_at \in {"spawn_fio", "fio_status", "parse_json"}
          /\ Len(EventsOf("launch")) = ji
  /\ (pc = "panicked" /\ panic_at \in RunJobsFailures) =>
       /\ fio_result = NoValue
       /\ Len(result) = ji - 1
       /\ ~ENABLED NextFio

\* C6 witness: the first of two jobs exited non-zero and the run is over
C6_Witness ==
  /\ pc = "panicked" /\ panic_at = "fio_status"
  /\ Len(jobs) = 2 /\ ji = 1
  /\ EventsOf("launch") = <<1>>

\* the result of every write trial so far, warmup included (a failed write
\* counts as the 0 the closure returns)
WriteTrialResults == EventsIn({"write_result", "write_err"})

VerifyTrialResults == EventsOf("verify_result")

\* C2: in run_write and in run_verify, when all 6 trials complete, exactly the
\* first trial's result is discarded, the results of trials 2..6 are retained,
\* and the value returned is their sum divided by 5.
C2_WarmupDiscardedMeanOfFive ==
  /\ pc = "w_returned" =>
       /\ Len(WriteTrialResults) = 6
       /\ results = Tail(WriteTrialResults)
       /\ write_result = Some(SumSeq(Tail(WriteTrialResults)) \div 5)
  /\ pc = "dt_done" =>
       /\ Len(VerifyTrialResults) = 6
       /\ results = Tail(VerifyTrialResults)
       /\ verify_result = Some(SumSeq(Tail(VerifyTrialResults)) \div 5)

\* C2 witness: both flows are over; the verify warmup measured 0, the five
\* retained trials 1 each, and the mean returned is 1
C2_Witness ==
  /\ pc = "dt_done"
  /\ write_result.some
  /\ VerifyTrialResults = <<0, 1, 1, 1, 1, 1>>
  /\ verify_result = Some(1)

C7_WriteFailureNeverAborts ==
  /\ EventsIn({"write_open_err", "write_err"}) # <<>> => pc # "panicked"
  /\ pc = "w_returned" =>
       /\ Len(WriteTrialResults) = 6
       /\ \A i \in 1..Len(events) :
            events[i][1] = "write_err" => events[i][2] = 0
       /\ write_result = Some(SumSeq(Tail(WriteTrialResults)) \div 5)

\* C8: in run_verify the first failing verify is fatal at once: the thread
\* panics, no later trial runs, the bar is not advanced for the failed trial
\* and no aggregate is returned.
C8_VerifyFailureIsFatal ==
  /\ EventsOf("verify_err") # <<>> => (pc = "panicked" /\ panic_at = "verify")
  /\ (pc = "panicked" /\ panic_at = "verify") =>
       /\ EventsOf("verify_err") = <<trial>>
       /\ EventsOf("verify_call") = [i \in 1..(trial + 1) |-> i - 1]
       /\ Len(VerifyTrialResults) = trial
       /\ bar = trial
       /\ verify_result = NoValue
       /\ ~ENABLED NextDisktest

\* C8 witness: the third verify trial failed after two that succeeded
C8_Witness ==
  /\ pc = "panicked" /\ panic_at = "verify"
  /\ trial = 2 /\ bar = 2

\* C9 as stated: whenever control is outside capture_disktest_output,
\* descriptors 1 and 2 refer to the process's original streams, also after
\* the wrapped call panicked.
C9_DescriptorsRestoredOnEveryExit ==
  InCapture \/ (fd1 = "stdout" /\ fd2 = "stderr")

\* C10 as stated: whenever a library call (disktest.write or disktest.verify)
\* is executing, descriptors 1 and 2 are redirected to the private pipes.
C10_LibraryCallsRunRedirected ==
  lib # "idle" => (fd1 = "pipe_out" /\ fd2 = "pipe_err")

\* C11 as stated: when the probe found the fio binary absent, the flow stops
\* before use: no job is serialized into temp.fio and no benchmark invocation
\* of the binary is attempted.
C11_AbsentBinaryStopsBeforeUse ==
  (~fio_installed /\ EventsOf("probe") # <<>>) =>
    /\ EventsOf("serialize") = <<>>
    /\ EventsOf("launch") = <<>>

\* run_jobs has returned its vector
RunJobsReturned == fio_result.some

\* C12: when every job succeeded and run_jobs returned, fio was launched
\* exactly once per job, in the order of the job list, and the vector
\* returned has one element per job, the i-th being the value decoded from
\* the text the i-th launch printed.
C12_OneLaunchPerJobResultsInOrder ==
  RunJobsReturned =>
    /\ EventsOf("serialize") = Iota(Len(jobs))
    /\ EventsOf("launch") = Iota(Len(jobs))
    /\ Len(EventsOf("printed")) = Len(jobs)
    /\ Len(fio_result.value) = Len(jobs)
    /\ \A i \in 1..Len(jobs) :
         /\ fio_result.value[i].ok
         /\ fio_result.value[i] = from_str(payload(EventsOf("printed")[i]))

\* C12 witness: two jobs ran, fio printed two texts that decode to different
\* values, and run_jobs returned both
C12_Witness ==
  /\ RunJobsReturned
  /\ Len(jobs) = 2 /\ Len(fio_result.value) = 2
  /\ EventsOf("printed") = <<BannerOutput, CleanOutput>>
  /\ fio_result.value[1] # fio_result.value[2]

\* C17: at every launch of fio, temp.fio holds exactly the serialization of
\* the job of this iteration: not the text of the job before, not a mixture,
\* not what an earlier run left in the file.
C17_TempFileHoldsCurrentJobAtLaunch ==
  pc = "rj_launch" =>
    /\ ji \in 1..Len(jobs)
    /\ temp_fio = [exists |-> TRUE, text |-> writes(jobs[ji])]

\* C17 witness: the second job is about to be launched, the file held the
\* first job's different text before
C17_Witness ==
  /\ pc = "rj_launch" /\ ji = 2
  /\ writes(jobs[1]) # writes(jobs[2])
  /\ temp_fio.text = writes(jobs[2])

InsertionOrder(ini) == SelectSeq(SectionOrder, LAMBDA s : s \in DOMAIN ini)

\* the section a job retains besides global
RetainedSection(job) == CHOOSE s \in NonGlobal(job) : TRUE

\* C15 as stated: the jobs come in the order in which the non-global
\* sections appear in the source document, so one document always yields one
\* job order.
C15_JobsInInsertionOrder ==
  pc = "split_done" =>
    [i \in 1..Len(jobs) |-> RetainedSection(jobs[i])]
      = SelectSeq(InsertionOrder(config), LAMBDA s : s # GLOBAL)

\* C19: the splitter applied to a job it produced returns exactly one job,
\* equal to that job: same global options, same retained section, whose
\* startdelay is still "0".
C19_SplitIdempotentOnJobs ==
  pc = "resplit_done" =>
    /\ jobs = <<config>>
    /\ \A s \in NonGlobal(config) : jobs[1][s]["startdelay"] = "0"
    /\ Cardinality(NonGlobal(jobs[1])) = 1

\* C19 witness: a job with global options and a section holding another option
\* besides startdelay was split again
C19_Witness ==
  /\ pc = "resplit_done"
  /\ GLOBAL \in DOMAIN config /\ DOMAIN config[GLOBAL] # {}
  /\ \E s \in NonGlobal(config) : DOMAIN config[s] = {"rw", "startdelay"}
  /\ Len(jobs) = 1

\* capture_disktest_output has returned to run_write, both threads joined
CaptureReturned == pc = "w_after" /\ rd_out = "none" /\ rd_err = "none"

\* the writer is blocked in a write to a full pipe
WriterBlocked ==
  \/ pc = "cap_wr_out" /\ pipe_out
  \/ pc = "cap_wr_err" /\ pipe_err

\* the ends of a capture that are no return: the wrapped call panicked, or a
\* reader thread failed on bytes that are no text and recv() panicked
CaptureAborted ==
  pc = "panicked" /\ panic_at \in {"lib_write", "recv_stdout", "recv_stderr"}

\* C14: capture_disktest_output cannot deadlock.  However often the wrapped
\* call fills the pipes, a blocked write completes; once the call is over both
\* reader threads see end-of-file and end, what they read is delivered before
\* the join, and the capture returns with both threads joined (unless the call
\* panicked or the bytes read were no text).
C14_CaptureNeverDeadlocks ==
  /\ WriterBlocked ~> (pc = "cap_in_f")
  /\ InWrappedCall ~> (CaptureReturned \/ CaptureAborted)
  /\ (pc = "cap_restore") ~>
       ((rd_out = "sent" /\ rd_err = "sent" /\ ~pipe_out /\ ~pipe_err) \/ CaptureAborted)
  /\ [](pc = "cap_join" => (rd_out = "sent" /\ rd_err = "sent"))

\* C14 witness: the wrapped call has written more than a pipe holds to both
\* descriptors: a pipe-full was read by each reader, stdout's pipe is full
\* again, and the writer is blocked in the next write
C14_Witness ==
  /\ pc = "cap_wr_out" /\ pipe_out
  /\ buf_out /\ buf_err
  /\ rd_out = "reading" /\ rd_err = "reading"

\* the events that start a backend execution
ExecutionStarts == {"launch", "write_call", "verify_call"}

\* the starts of backend executions and the delays of the running loop, in order
StartsAndDelays ==
  SelectSeq(events, LAMBDA e : e[1] \in ExecutionStarts \cup {"sleep"})

\* C13 as stated: in the write loop, the verify loop and the job loop, a delay
\* step lies between the end of each backend execution and the start of the
\* next: no two executions start without a delay between them.
C13_DelayBetweenExecutions ==
  \A i \in 1..(Len(StartsAndDelays) - 1) :
    ~(/\ StartsAndDelays[i][1] \in ExecutionStarts
      /\ StartsAndDelays[i + 1][1] \in ExecutionStarts)

\* positions of the three loops
WriteFlow == pc \in {"w_loop", "w_after", "w_sleep", "w_returned"} \/ InCapture

VerifyFlow == pc \in {"v_loop", "v_in_verify", "dt_done"}

JobsFlow ==
  pc \in {"rj_next", "rj_launch", "rj_parse", "rj_sleep", "rj_returned",
          "main_lookup", "main_done"}

\* the wrapped call is over, bar.inc(1) of this trial is still to come
BetweenCallAndInc ==
  pc \in {"cap_restore", "cap_drop", "cap_recv_out", "cap_recv_err", "cap_join", "w_after"}

\* C16: the bar advances by one per completed backend execution, the warmup
\* included.  In run_write and run_verify its position is the number of
\* library calls that have returned (less the one whose bar.inc is still to
\* come), it is the number of trials done at every loop head and 6 at the
\* loop's end; in run_jobs it is the number of results pushed, the number of
\* jobs done at every loop head, and the job count once run_jobs returned.
C16_BarCountsCompletedExecutions ==
  /\ WriteFlow =>
       /\ bar = Len(WriteTrialResults) - (IF BetweenCallAndInc THEN 1 ELSE 0)
       /\ pc = "w_loop" => bar = trial
       /\ ((pc = "w_loop" /\ trial >= TrialCount) \/ pc = "w_returned") => bar = 6
  /\ VerifyFlow =>
       /\ bar = Len(VerifyTrialResults)
       /\ pc = "v_loop" => bar = trial
       /\ ((pc = "v_loop" /\ trial >= TrialCount) \/ pc = "dt_done") => bar = 6
  /\ JobsFlow =>
       /\ bar = Len(result)
       /\ pc = "rj_next" => bar = ji - 1
       /\ RunJobsReturned => bar = Len(jobs)

\* C16 witness: run_write is over: the bar stands at 6 with 5 results retained
C16_Witness ==
  /\ pc = "w_returned"
  /\ bar = 6
  /\ Len(results) = 5
  /\ Len(WriteTrialResults) = 6

====
